---- MODULE Spec2Model ----
(***************************************************************************)
(* Model of wherehows-web/app/constants/dataset-compliance.ts: the wizard  *)
(* step sequencer (complianceSteps, getComplianceSteps), the entity        *)
(* filter/sanitizer (isEditableComplianceEntity, filterEditableEntities,   *)
(* removeReadonlyAttr) and the option mapper (getFieldIdentifierOption,    *)
(* getFieldIdentifierOptions).                                             *)
(*                                                                         *)
(* JavaScript objects live on heaps and are named by references, so that   *)
(* "the same object" and "an equal object" are different things.  A        *)
(* JavaScript value is a pair <<type, text>>: the boolean true is          *)
(* <<"boolean","true">>, the string 'true' is <<"string","true">>.         *)
(***************************************************************************)
EXTENDS Integers, Sequences, FiniteSets, TLC

VARIABLES
  stepHeap,     \* step descriptor objects { name }: ref |-> name
  mapHeap,      \* step maps: ref |-> [key |-> ref of a step descriptor]
  calls,        \* the getComplianceSteps calls made: <<[arg, ret]>>
  lastSteps,    \* the last getComplianceSteps call, with the value it returned
  writes,       \* number of writes callers made through returned maps
  objHeap,      \* compliance entity objects: ref |-> [key |-> value]
  arrHeap,      \* arrays of compliance entities: ref |-> <<object refs>>
  filtered,     \* array returned by filterEditableEntities(entities), 0 before
  stripped,     \* array returned by removeReadonlyAttr(entities), 0 before
  strippedTwice,\* array returned by removeReadonlyAttr(stripped), 0 before
  inputSnap,    \* deep value of the input array when it was constructed
  lastEditable, \* the last isEditableComplianceEntity call: <<[entity, result]>>
  dataTypes,    \* input of getFieldIdentifierOptions
  options       \* result of getFieldIdentifierOptions, <<>> before the call

vars == <<stepHeap, mapHeap, calls, lastSteps, writes, objHeap, arrHeap, filtered,
          stripped, strippedTwice, inputSnap, lastEditable, dataTypes, options>>

stepVars == <<stepHeap, mapHeap, calls, lastSteps, writes>>
entityVars == <<objHeap, arrHeap, filtered, stripped, strippedTwice, inputSnap,
                lastEditable>>
optionVars == <<dataTypes, options>>

(***************************************************************************)
(* Bounds of the model.                                                    *)
(***************************************************************************)
MaxCalls == 4
MaxWrites == 2
MaxLen == 3

(***************************************************************************)
(* JavaScript values.                                                      *)
(***************************************************************************)
JsUndefined == <<"undefined", "undefined">>
JsTrue == <<"boolean", "true">>
JsFalse == <<"boolean", "false">>
JsStringTrue == <<"string", "true">>
JsOne == <<"number", "1">>

\* v === w: same type and same value
StrictEquals(v, w) == v[1] = w[1] /\ v[2] = w[2]

\* ToBoolean(v), as used by ! and by if
ToBoolean(v) ==
  CASE v[1] = "undefined" -> FALSE
    [] v[1] = "boolean" -> v[2] = "true"
    [] v[1] = "string" -> v[2] # ""
    [] v[1] = "number" -> v[2] \notin {"0", "NaN"}
    [] OTHER -> TRUE

(***************************************************************************)
(* Step sequencer.                                                         *)
(***************************************************************************)
ComplianceStepsRef == 1

\* the object literal assigned to complianceSteps, as a value
complianceSteps ==
  [k \in {"0", "1", "2"} |->
     CASE k = "0" -> "editCompliancePolicy"
       [] k = "1" -> "editPurgePolicy"
       [] k = "2" -> "editDatasetClassification"]

\* { ...a, ...b }: a new object with a's properties, overwritten by b's
Spread(a, b) ==
  [k \in DOMAIN a \cup DOMAIN b |-> IF k \in DOMAIN b THEN b[k] ELSE a[k]]

\* the value of a step map: key |-> name of the descriptor it refers to
MapValue(mh, sh, ref) == [k \in DOMAIN mh[ref] |-> sh[mh[ref][k]]]

\* mutants of getComplianceSteps
getComplianceSteps_replace(hasSchemaArg, mh, sh) ==
  LET hasSchema == IF hasSchemaArg = JsUndefined THEN JsTrue ELSE hasSchemaArg
      newStep == Len(sh) + 1
      piiTaggingStep == [k \in {"0"} |-> newStep]
  IN IF ~ToBoolean(hasSchema)
       THEN [ret |-> Len(mh) + 1,
             mapHeap |-> Append(mh, piiTaggingStep),
             stepHeap |-> Append(sh, "editDatasetLevelCompliancePolicy")]
       ELSE [ret |-> ComplianceStepsRef, mapHeap |-> mh, stepHeap |-> sh]

getComplianceSteps_inverted(hasSchemaArg, mh, sh) ==
  LET hasSchema == IF hasSchemaArg = JsUndefined THEN JsTrue ELSE hasSchemaArg
      newStep == Len(sh) + 1
      piiTaggingStep == [k \in {"0"} |-> newStep]
  IN IF ToBoolean(hasSchema)
       THEN [ret |-> Len(mh) + 1,
             mapHeap |-> Append(mh, Spread(mh[ComplianceStepsRef], piiTaggingStep)),
             stepHeap |-> Append(sh, "editDatasetLevelCompliancePolicy")]
       ELSE [ret |-> ComplianceStepsRef, mapHeap |-> mh, stepHeap |-> sh]

getComplianceSteps_overrideLast(hasSchemaArg, mh, sh) ==
  LET hasSchema == IF hasSchemaArg = JsUndefined THEN JsTrue ELSE hasSchemaArg
      newStep == Len(sh) + 1
      piiTaggingStep == [k \in {"2"} |-> newStep]
  IN IF ~ToBoolean(hasSchema)
       THEN [ret |-> Len(mh) + 1,
             mapHeap |-> Append(mh, Spread(mh[ComplianceStepsRef], piiTaggingStep)),
             stepHeap |-> Append(sh, "editDatasetLevelCompliancePolicy")]
       ELSE [ret |-> ComplianceStepsRef, mapHeap |-> mh, stepHeap |-> sh]

\* getComplianceSteps(hasSchema = true) on the heaps mh, sh: the reference it
\* returns and the heaps after the call.  piiTaggingStep is built on every call;
\* when hasSchema holds nothing refers to it after the return and it is not
\* kept.  The spread copies the references held by complianceSteps, not the
\* descriptors they refer to.
getComplianceSteps(hasSchemaArg, mh, sh) ==
  LET hasSchema == IF hasSchemaArg = JsUndefined THEN JsTrue ELSE hasSchemaArg
      newStep == Len(sh) + 1
      piiTaggingStep == [k \in {"0"} |-> newStep]
  IN IF ~ToBoolean(hasSchema)
       THEN [ret |-> Len(mh) + 1,
             mapHeap |-> Append(mh, Spread(mh[ComplianceStepsRef], piiTaggingStep)),
             stepHeap |-> Append(sh, "editDatasetLevelCompliancePolicy")]
       ELSE [ret |-> ComplianceStepsRef, mapHeap |-> mh, stepHeap |-> sh]

HasSchemaArgs == {JsUndefined, JsTrue, JsFalse}

\* a caller calls getComplianceSteps(arg) and keeps the map it is handed
GetComplianceSteps(arg) ==
  /\ Len(calls) < MaxCalls
  /\ LET r == getComplianceSteps(arg, mapHeap, stepHeap)
     IN /\ mapHeap' = r.mapHeap
        /\ stepHeap' = r.stepHeap
        /\ calls' = Append(calls, [arg |-> arg, ret |-> r.ret])
        /\ lastSteps' = <<[arg |-> arg, ret |-> r.ret,
                           value |-> MapValue(r.mapHeap, r.stepHeap, r.ret)]>>
  /\ UNCHANGED <<writes, entityVars, optionVars>>

\* a caller renames a step of a map it was handed: m[k].name = 'renamed'
CallerRenamesStep(c, k) ==
  /\ writes < MaxWrites
  /\ k \in DOMAIN mapHeap[calls[c].ret]
  /\ stepHeap[mapHeap[calls[c].ret][k]] # "renamed"
  /\ stepHeap' = [stepHeap EXCEPT ![mapHeap[calls[c].ret][k]] = "renamed"]
  /\ writes' = writes + 1
  /\ UNCHANGED <<mapHeap, calls, lastSteps, entityVars, optionVars>>

\* a caller deletes a step of a map it was handed: delete m[k]
CallerDeletesStep(c, k) ==
  /\ writes < MaxWrites
  /\ k \in DOMAIN mapHeap[calls[c].ret]
  /\ mapHeap' = [mapHeap EXCEPT ![calls[c].ret] =
                   [j \in DOMAIN mapHeap[calls[c].ret] \ {k} |-> mapHeap[calls[c].ret][j]]]
  /\ writes' = writes + 1
  /\ UNCHANGED <<stepHeap, calls, lastSteps, entityVars, optionVars>>

InitSteps ==
  /\ stepHeap = <<complianceSteps["0"], complianceSteps["1"], complianceSteps["2"]>>
  /\ mapHeap = <<[k \in DOMAIN complianceSteps |->
                    CASE k = "0" -> 1 [] k = "1" -> 2 [] k = "2" -> 3]>>
  /\ calls = <<>>
  /\ lastSteps = <<>>
  /\ writes = 0

IdleEntities ==
  /\ objHeap = <<>>
  /\ arrHeap = <<>>
  /\ filtered = 0
  /\ stripped = 0
  /\ strippedTwice = 0
  /\ inputSnap = <<>>
  /\ lastEditable = <<>>

IdleOptions ==
  /\ dataTypes = <<>>
  /\ options = <<>>

InitSequencer == InitSteps /\ IdleEntities /\ IdleOptions

NextSteps == \E arg \in HasSchemaArgs : GetComplianceSteps(arg)

NextAlias ==
  \/ \E arg \in HasSchemaArgs : GetComplianceSteps(arg)
  \/ \E c \in 1..Len(calls), k \in DOMAIN complianceSteps : CallerRenamesStep(c, k)
  \/ \E c \in 1..Len(calls), k \in DOMAIN complianceSteps : CallerDeletesStep(c, k)

\* callers only read the maps they are handed
SpecSteps == InitSequencer /\ [][NextSteps]_vars

\* callers also write through the maps they are handed
SpecAlias == InitSequencer /\ [][NextAlias]_vars

(***************************************************************************)
(* Array and object utilities imported from wherehows-web/utils.           *)
(***************************************************************************)
\* the elements of an array
Elements(array) == {array[i] : i \in 1..Len(array)}

\* arrayMap(f)(array): a new array holding f of each element, in order; the
\* callback f is given as the function it computes on the elements
arrayMap(f, array) == [i \in 1..Len(array) |-> f[array[i]]]

\* arrayFilter(p)(array): a new array holding the elements p accepts, in order
arrayFilter(p, array) == SelectSeq(array, LAMBDA x : p[x])

\* fleece(droppedKeys)(o): a copy of o without the dropped keys
fleece(droppedKeys, o) == [k \in DOMAIN o \ droppedKeys |-> o[k]]

(***************************************************************************)
(* Entity filter / sanitizer.                                              *)
(***************************************************************************)
\* o.key, undefined when o has no such property
Get(o, key) == IF key \in DOMAIN o THEN o[key] ELSE JsUndefined

\* the array of entities the caller passes in
EntitiesRef == 1

\* the value of an array of entities: the sequence of its entities' values
ArrayValue(oh, ah, ref) == [i \in 1..Len(ah[ref]) |-> oh[ah[ref][i]]]

ReadonlyValues == {JsTrue, JsFalse, JsStringTrue, JsOne}

IdentifierFields == {<<"string", "a">>, <<"string", "b">>}

\* compliance entities: identifierField always, readonly optionally
EntityValues ==
  {[k \in {"identifierField"} |-> f] : f \in IdentifierFields}
    \cup {[k \in {"identifierField", "readonly"} |->
             IF k = "readonly" THEN r ELSE f] : f \in IdentifierFields, r \in ReadonlyValues}

EntityLists == UNION {[1..n -> EntityValues] : n \in 0..MaxLen}

\* mutant of isEditableComplianceEntity: !readonly
isEditableComplianceEntity_truthy(entity) ==
  LET readonly == Get(entity, "readonly")
  IN ~ToBoolean(readonly)

isEditableComplianceEntity(entity) ==
  LET readonly == Get(entity, "readonly")
  IN ~StrictEquals(readonly, JsTrue)

\* mutant of filterEditableEntities: keeps the entities that are not editable
filterEditableEntities_inverted(oh, entities) ==
  arrayFilter([r \in Elements(entities) |-> ~isEditableComplianceEntity(oh[r])], entities)

\* filterEditableEntities(entities): entities holds references into oh, and
\* the new array holds the accepted references themselves
filterEditableEntities(oh, entities) ==
  arrayFilter([r \in Elements(entities) |-> isEditableComplianceEntity(oh[r])], entities)

\* mutant of removeReadonlyAttr: the dropped key is misspelt
removeReadonlyAttr_wrongKey(oh, ah, ref) ==
  LET copies == arrayMap([r \in Elements(ah[ref]) |-> fleece({"readOnly"}, oh[r])], ah[ref])
  IN [ret |-> Len(ah) + 1,
      objHeap |-> oh \o copies,
      arrHeap |-> Append(ah, [i \in 1..Len(copies) |-> Len(oh) + i])]

\* mutant of removeReadonlyAttr: the key is deleted from the entities passed in
removeReadonlyAttr_inPlace(oh, ah, ref) ==
  [ret |-> Len(ah) + 1,
   objHeap |-> [r \in 1..Len(oh) |->
                  IF \E i \in 1..Len(ah[ref]) : ah[ref][i] = r
                    THEN fleece({"readonly"}, oh[r]) ELSE oh[r]],
   arrHeap |-> Append(ah, ah[ref])]

\* mutant of removeReadonlyAttr: the last entity is left out
removeReadonlyAttr_offByOne(oh, ah, ref) ==
  LET copies == arrayMap([r \in Elements(ah[ref]) |-> fleece({"readonly"}, oh[r])],
                         SubSeq(ah[ref], 1, Len(ah[ref]) - 1))
  IN [ret |-> Len(ah) + 1,
      objHeap |-> oh \o copies,
      arrHeap |-> Append(ah, [i \in 1..Len(copies) |-> Len(oh) + i])]

\* removeReadonlyAttr(entities) on the heaps oh, ah, entities being the array
\* ref: the reference of the array it returns and the heaps after the call.
\* Each entity is copied without its readonly key; the copies are new objects.
removeReadonlyAttr(oh, ah, ref) ==
  LET copies == arrayMap([r \in Elements(ah[ref]) |-> fleece({"readonly"}, oh[r])], ah[ref])
  IN [ret |-> Len(ah) + 1,
      objHeap |-> oh \o copies,
      arrHeap |-> Append(ah, [i \in 1..Len(copies) |-> Len(oh) + i])]

\* isEditableComplianceEntity(entities[i])
IsEditableComplianceEntity(i) ==
  /\ i \in 1..Len(arrHeap[EntitiesRef])
  /\ lastEditable' = <<[entity |-> arrHeap[EntitiesRef][i],
                        result |-> isEditableComplianceEntity(objHeap[arrHeap[EntitiesRef][i]])]>>
  /\ UNCHANGED <<objHeap, arrHeap, filtered, stripped, strippedTwice, inputSnap,
                 stepVars, optionVars>>

\* filtered = filterEditableEntities(entities)
FilterEditableEntities ==
  /\ filtered = 0
  /\ arrHeap' = Append(arrHeap, filterEditableEntities(objHeap, arrHeap[EntitiesRef]))
  /\ filtered' = Len(arrHeap) + 1
  /\ UNCHANGED <<objHeap, stripped, strippedTwice, inputSnap, lastEditable,
                 stepVars, optionVars>>

\* stripped = removeReadonlyAttr(entities)
RemoveReadonlyAttr ==
  /\ stripped = 0
  /\ LET r == removeReadonlyAttr(objHeap, arrHeap, EntitiesRef)
     IN /\ objHeap' = r.objHeap
        /\ arrHeap' = r.arrHeap
        /\ stripped' = r.ret
  /\ UNCHANGED <<filtered, strippedTwice, inputSnap, lastEditable, stepVars, optionVars>>

\* strippedTwice = removeReadonlyAttr(stripped)
RemoveReadonlyAttrAgain ==
  /\ stripped # 0
  /\ strippedTwice = 0
  /\ LET r == removeReadonlyAttr(objHeap, arrHeap, stripped)
     IN /\ objHeap' = r.objHeap
        /\ arrHeap' = r.arrHeap
        /\ strippedTwice' = r.ret
  /\ UNCHANGED <<filtered, stripped, inputSnap, lastEditable, stepVars, optionVars>>

\* the caller has built an array of up to MaxLen distinct entity objects
InitEntities ==
  /\ objHeap \in EntityLists
  /\ arrHeap = <<[i \in 1..Len(objHeap) |-> i]>>
  /\ inputSnap = objHeap
  /\ filtered = 0
  /\ stripped = 0
  /\ strippedTwice = 0
  /\ lastEditable = <<>>

InitSanitizer == InitSteps /\ InitEntities /\ IdleOptions

NextEntities ==
  \/ \E i \in 1..MaxLen : IsEditableComplianceEntity(i)
  \/ FilterEditableEntities
  \/ RemoveReadonlyAttr
  \/ RemoveReadonlyAttrAgain

SpecEntities == InitSanitizer /\ [][NextEntities]_vars

(***************************************************************************)
(* Option mapper.                                                          *)
(***************************************************************************)
DataTypeIds == {<<"string", "EMAIL">>, <<"string", "MEMBER_ID">>}

DataTypeTitles == {<<"string", "Email">>, <<"string", "Member ID">>}

\* compliance data types: id, title and the attributes the mapper does not read
DataTypeValues ==
  {[k \in {"id", "title", "idType"} |->
      CASE k = "id" -> id [] k = "title" -> title [] k = "idType" -> JsTrue]
     : id \in DataTypeIds, title \in DataTypeTitles}

DataTypeLists == UNION {[1..n -> DataTypeValues] : n \in 0..MaxLen}

\* mutant of getFieldIdentifierOption: value and label swapped
getFieldIdentifierOption_swapped(complianceDataType) ==
  LET id == Get(complianceDataType, "id")
      title == Get(complianceDataType, "title")
  IN [k \in {"value", "label"} |-> IF k = "value" THEN title ELSE id]

getFieldIdentifierOption(complianceDataType) ==
  LET id == Get(complianceDataType, "id")
      title == Get(complianceDataType, "title")
  IN [k \in {"value", "label"} |-> IF k = "value" THEN id ELSE title]

getFieldIdentifierOptions(array) ==
  arrayMap([d \in Elements(array) |-> getFieldIdentifierOption(d)], array)

\* options = getFieldIdentifierOptions(dataTypes)
GetFieldIdentifierOptions ==
  /\ options = <<>>
  /\ options' = <<getFieldIdentifierOptions(dataTypes)>>
  /\ UNCHANGED <<dataTypes, stepVars, entityVars>>

InitOptions ==
  /\ dataTypes \in DataTypeLists
  /\ options = <<>>

InitMapper == InitSteps /\ IdleEntities /\ InitOptions

NextOptions == GetFieldIdentifierOptions

SpecOptions == InitMapper /\ [][NextOptions]_vars

(***************************************************************************)
(* Claims about the step sequencer.                                        *)
(***************************************************************************)
DefaultSteps ==
  [k \in {"0", "1", "2"} |->
     CASE k = "0" -> "editCompliancePolicy"
       [] k = "1" -> "editPurgePolicy"
       [] k = "2" -> "editDatasetClassification"]

SchemalessSteps ==
  [k \in {"0", "1", "2"} |->
     CASE k = "0" -> "editDatasetLevelCompliancePolicy"
       [] k = "1" -> "editPurgePolicy"
       [] k = "2" -> "editDatasetClassification"]

\* the property key of position i
KeyOf(i) == CASE i = 0 -> "0" [] i = 1 -> "1" [] i = 2 -> "2" [] OTHER -> "other"

\* C1: getComplianceSteps called with no argument or with true returns exactly
\* the three default steps, and called with false returns the default steps
\* with only key 0 overridden by editDatasetLevelCompliancePolicy.
C1_StepsPerArgument ==
  \A i \in 1..Len(lastSteps) :
    /\ lastSteps[i].arg \in {JsUndefined, JsTrue} => lastSteps[i].value = DefaultSteps
    /\ lastSteps[i].arg = JsFalse => lastSteps[i].value = SchemalessSteps

C1_Witness ==
  /\ Len(calls) >= 3
  /\ \E c \in 1..Len(calls) : calls[c].arg = JsUndefined
  /\ \E c \in 1..Len(calls) : calls[c].arg = JsTrue
  /\ lastSteps[1].arg = JsFalse

\* C2 as stated: for a dataset without schema the returned map has the single
\* key 0, editDatasetLevelCompliancePolicy, and stages 1 and 2 are absent.
C2_Original ==
  \A i \in 1..Len(lastSteps) :
    lastSteps[i].arg = JsFalse =>
      /\ DOMAIN lastSteps[i].value = {"0"}
      /\ lastSteps[i].value["0"] = "editDatasetLevelCompliancePolicy"

\* C2 amended: for a dataset without schema the returned map has three stages:
\* stage 0 is editDatasetLevelCompliancePolicy and stages 1 (editPurgePolicy)
\* and 2 (editDatasetClassification) follow it, so the wizard is not single-step.
C2_SchemalessKeepsLaterStages ==
  \A i \in 1..Len(lastSteps) :
    lastSteps[i].arg = JsFalse =>
      /\ Cardinality(DOMAIN lastSteps[i].value) = 3
      /\ lastSteps[i].value["0"] = "editDatasetLevelCompliancePolicy"
      /\ "1" \in DOMAIN lastSteps[i].value /\ lastSteps[i].value["1"] = "editPurgePolicy"
      /\ "2" \in DOMAIN lastSteps[i].value
      /\ lastSteps[i].value["2"] = "editDatasetClassification"

C2_Witness ==
  /\ lastSteps # <<>>
  /\ lastSteps[1].arg = JsFalse
  /\ lastSteps[1].ret # ComplianceStepsRef

\* C3 as stated: whatever callers did to the maps they were handed, the
\* complianceSteps table is unchanged, a call with no argument or with true
\* returns the default three steps and a call with false returns them with
\* key 0 overridden.
C3_NoStateAcrossCalls ==
  /\ MapValue(mapHeap, stepHeap, ComplianceStepsRef) = DefaultSteps
  /\ \A i \in 1..Len(lastSteps) :
       /\ lastSteps[i].arg \in {JsUndefined, JsTrue} => lastSteps[i].value = DefaultSteps
       /\ lastSteps[i].arg = JsFalse => lastSteps[i].value = SchemalessSteps

\* C9: the returned map is never empty, its keys are exactly 0 .. n-1, and step
\* 0 is editCompliancePolicy with a schema and editDatasetLevelCompliancePolicy
\* without.
C9_DenseKeysPolicyFirst ==
  \A i \in 1..Len(lastSteps) :
    LET v == lastSteps[i].value
        n == Cardinality(DOMAIN v)
    IN /\ n >= 1
       /\ DOMAIN v = {KeyOf(j) : j \in 0..(n - 1)}
       /\ v["0"] = IF lastSteps[i].arg = JsFalse
                     THEN "editDatasetLevelCompliancePolicy"
                     ELSE "editCompliancePolicy"

C9_Witness ==
  /\ Len(calls) = MaxCalls
  /\ \E c \in 1..Len(calls) : calls[c].arg = JsFalse
  /\ \E c \in 1..Len(calls) : calls[c].arg = JsTrue
  /\ lastSteps[1].arg = JsUndefined

(***************************************************************************)
(* Claims about the entity filter / sanitizer.                             *)
(***************************************************************************)
\* the entity is marked read-only: its readonly attribute is the boolean true
MarkedReadonly(o) == "readonly" \in DOMAIN o /\ o["readonly"] = <<"boolean", "true">>

\* C4: isEditableComplianceEntity returns false exactly for the entities whose
\* readonly attribute is the boolean true; readonly absent, false, the string
\* 'true' or the number 1 all give true.
C4_StrictReadonlyCheck ==
  \A i \in 1..Len(lastEditable) :
    LET o == objHeap[lastEditable[i].entity]
    IN /\ lastEditable[i].result = ~MarkedReadonly(o)
       /\ ("readonly" \notin DOMAIN o \/ o["readonly"] \in {JsFalse, JsStringTrue, JsOne})
            => lastEditable[i].result = TRUE

C4_Witness ==
  /\ lastEditable # <<>>
  /\ Get(objHeap[lastEditable[1].entity], "readonly") = JsStringTrue
  /\ lastEditable[1].result = TRUE

\* the rank of position i among the kept positions K: 1 for the smallest
Rank(K, i) == Cardinality({x \in K : x <= i})

\* C5: filterEditableEntities returns the entities of its input that are not
\* marked read-only, each once and in their original order: no entity with
\* readonly === true is returned, none of the others is dropped, nothing is
\* added, and the result is no longer than the input.
C5_FilterIsEditableSubsequence ==
  filtered # 0 =>
    LET in == arrHeap[EntitiesRef]
        out == arrHeap[filtered]
    IN /\ Len(out) <= Len(in)
       /\ \A j \in 1..Len(out) : ~MarkedReadonly(objHeap[out[j]])
       /\ \E K \in SUBSET (1..Len(in)) :
            /\ Cardinality(K) = Len(out)
            /\ \A i \in K : out[Rank(K, i)] = in[i]
            /\ \A i \in (1..Len(in)) \ K : MarkedReadonly(objHeap[in[i]])

C5_Witness ==
  /\ filtered # 0
  /\ Len(arrHeap[EntitiesRef]) = 3
  /\ ~MarkedReadonly(inputSnap[1])
  /\ MarkedReadonly(inputSnap[2])
  /\ Get(inputSnap[3], "readonly") = JsOne
  /\ inputSnap[1] # inputSnap[3]
  /\ Len(arrHeap[filtered]) = 2

\* C6: removeReadonlyAttr returns as many entities as it was given, in the same
\* order, none of which has the key readonly, and each of which has every
\* other key of the entity it comes from, with the same value.
C6_StripRemovesOnlyReadonly ==
  stripped # 0 =>
    LET out == ArrayValue(objHeap, arrHeap, stripped)
    IN /\ Len(out) = Len(inputSnap)
       /\ \A i \in 1..Len(out) :
            /\ "readonly" \notin DOMAIN out[i]
            /\ DOMAIN out[i] = DOMAIN inputSnap[i] \ {"readonly"}
            /\ \A k \in DOMAIN out[i] : out[i][k] = inputSnap[i][k]

C6_Witness ==
  /\ stripped # 0
  /\ Len(inputSnap) = 3
  /\ Get(inputSnap[1], "readonly") = JsTrue
  /\ Get(inputSnap[2], "readonly") = JsFalse
  /\ "readonly" \notin DOMAIN inputSnap[3]
  /\ inputSnap[1]["identifierField"] # inputSnap[2]["identifierField"]

\* C7: removeReadonlyAttr leaves its input as it was: the input array holds the
\* same entities, every one of them has the value it had (readonly included),
\* and the returned array and entities are new objects.
C7_StripLeavesInputAlone ==
  stripped # 0 =>
    /\ arrHeap[EntitiesRef] = [i \in 1..Len(inputSnap) |-> i]
    /\ ArrayValue(objHeap, arrHeap, EntitiesRef) = inputSnap
    /\ stripped # EntitiesRef
    /\ \A i \in 1..Len(arrHeap[stripped]) :
         \A j \in 1..Len(arrHeap[EntitiesRef]) :
           arrHeap[stripped][i] # arrHeap[EntitiesRef][j]

C7_Witness ==
  /\ stripped # 0
  /\ Len(inputSnap) >= 2
  /\ \E i \in 1..Len(inputSnap) : MarkedReadonly(inputSnap[i])
  /\ \E i \in 1..Len(inputSnap) : MarkedReadonly(objHeap[arrHeap[EntitiesRef][i]])

\* C8: removeReadonlyAttr applied to its own result returns a collection equal
\* to that result.
C8_StripIdempotent ==
  strippedTwice # 0 =>
    ArrayValue(objHeap, arrHeap, strippedTwice) = ArrayValue(objHeap, arrHeap, stripped)

C8_Witness ==
  /\ strippedTwice # 0
  /\ Len(arrHeap[strippedTwice]) = MaxLen
  /\ \E i \in 1..Len(inputSnap) : "readonly" \in DOMAIN inputSnap[i]
  /\ strippedTwice # stripped

(***************************************************************************)
(* Claims about the option mapper.                                         *)
(***************************************************************************)
\* C10: getFieldIdentifierOptions returns one option per data type, in order:
\* the i-th option has the i-th data type's id as value and its title as
\* label, and no other attribute (no isDisabled); an empty list gives an empty
\* list.
C10_OptionsElementwise ==
  \A c \in 1..Len(options) :
    /\ Len(options[c]) = Len(dataTypes)
    /\ \A i \in 1..Len(dataTypes) :
         /\ DOMAIN options[c][i] = {"value", "label"}
         /\ options[c][i]["value"] = dataTypes[i]["id"]
         /\ options[c][i]["label"] = dataTypes[i]["title"]
    /\ dataTypes = <<>> => options[c] = <<>>

C10_Witness ==
  /\ options # <<>>
  /\ Len(options[1]) = 3
  /\ dataTypes[1]["id"] # dataTypes[2]["id"]
  /\ dataTypes[1]["title"] # dataTypes[3]["title"]

====
